---------------------------- MODULE Spec2Model ----------------------------
(***************************************************************************)
(* A model of hc_array.h (handy-core): the generic dynamic array.          *)
(*                                                                         *)
(* The array is the record vec = [data, count, capacity, elem_size, mem].  *)
(* data is the storage pointer: "NULL", "live" (it points to an allocated  *)
(* block) or "freed" (it points to a block the allocator released).  mem   *)
(* is the content of the block data points to, one entry per element slot  *)
(* (a block of b bytes holds b \div elem_size slots; every offset the code *)
(* computes is a multiple of elem_size).  A slot holds an element value or *)
(* Uninit, the indeterminate content of memory that was never written.     *)
(* size_t arithmetic is arithmetic modulo 2^SizeBits.                      *)
(*                                                                         *)
(* Every function of the source is an operator that maps the array (and    *)
(* the arguments) to the SET of its possible outcomes [vec, ret, out]: one *)
(* outcome per result the allocator can give.  The actions apply them.     *)
(***************************************************************************)
EXTENDS Integers, Sequences, FiniteSets, TLC

VARIABLES vec,      \* the hc_array_t the program works on
          op,       \* the function called last
          before,   \* the count and the capacity it was called with
          ret,      \* what it returned: <<code>>, or <<>> for a void function
          out,      \* what it wrote through its out pointer: <<x>>, or <<>>
          pushed,   \* PushSpec only: the capacity created and the values pushed
          dup,      \* CopySpec only: the hc_array_t that hc_array_copy returned
          addr,     \* CopySpec only: the addresses vec.data and dup.data hold,
                    \* whether the copy was made, the array called last
          str       \* StringSpec only: the hc_string_t the program works on

vars == <<vec, op, before, ret, out, pushed, dup, addr, str>>

---------------------------------------------------------------------------
(* Bounds of the model. *)

\* size_t has SizeBits bits
SizeBits == 8
\* the largest capacity an action may ask the allocator for
MaxCap == 4
\* the largest count argument of hc_array_insert
MaxInsert == 2
\* the number of push_back calls of a PushSpec run
MaxPush == 5

\* the largest capacity of a ShrinkSpec run
MaxShrinkCap == 8
\* the largest count a ShrinkSpec run pushes up to
MaxShrinkCount == 4

\* the number of addresses the allocator of CopySpec hands out
MaxAddr == 3
\* the largest capacity of a CopySpec run
MaxCopyCap == 2

\* the largest capacity of a string of StringSpec
MaxStrCap == 8

\* the element values of the callers of Spec
Values == {0, 1}
\* the element sizes create is called with
ElemSizes == {0, 2}
\* the values and the capacities of the callers of PushSpec
PushValues == {10, 20, 30, 40, 50}
PushCaps == {1, 2, 3, 4}
\* sizeof(int)
PushElemSizes == {4}

---------------------------------------------------------------------------
(* Return codes, enum hc_retcode_array. *)

HC_ARRAY_ERROR_OUT_OF_BOUNDS == -2
HC_ARRAY_ERROR_OUT_OF_MEMORY == -1
HC_ARRAY_SUCCESS == 0
HC_ARRAY_EMPTY == 1

\* the literal hc_array_shrink_to_fit returns when count == capacity
AlreadyFit == 1

\* Return codes of hc_string.h.
HC_STRING_ERROR_OUT_OF_MEMORY == -3
HC_STRING_ERROR_INVALID_DST == -2
HC_STRING_ERROR_INVALID_SRC == -1
HC_STRING_SUCCESS == 0

\* '\0'
NUL == 0
\* a character isspace accepts
Space == 1
\* the characters of the strings of StringSpec: the space and two letters
Chars == {Space, 2, 3}

---------------------------------------------------------------------------
(* size_t arithmetic and the bit operations of the growth code. *)

SizeMod == 2 ^ SizeBits

Wrap(x) == x % SizeMod

RECURSIVE BitAnd(_, _)
BitAnd(a, b) ==
    IF a = 0 \/ b = 0 THEN 0
    ELSE (a % 2) * (b % 2) + 2 * BitAnd(a \div 2, b \div 2)

RECURSIVE BitOr(_, _)
BitOr(a, b) ==
    IF a = 0 THEN b
    ELSE IF b = 0 THEN a
    ELSE (IF a % 2 = 1 \/ b % 2 = 1 THEN 1 ELSE 0)
         + 2 * BitOr(a \div 2, b \div 2)

\* a >> k
Shr(a, k) == IF k >= SizeBits THEN 0 ELSE a \div (2 ^ k)

\* a |= a >> k
OrShr(a, k) == BitOr(a, Shr(a, k))

---------------------------------------------------------------------------
(* Memory. *)

\* the content of a byte nobody wrote (malloc and realloc do not initialise)
Uninit == -1

\* the slots of elem_size bytes a block of `bytes` bytes holds
Slots(bytes, es) == IF es = 0 THEN 0 ELSE bytes \div es

\* a block of n slots nobody wrote
Fresh(n) == [i \in 1..n |-> Uninit]

\* malloc(bytes): NULL, or a new block.  malloc(0) may return either.
HC_MALLOC(bytes, es) ==
    {[ptr |-> "NULL", mem |-> <<>>],
     [ptr |-> "live", mem |-> Fresh(Slots(bytes, es))]}

\* realloc(v.data, bytes): each outcome is the pointer returned (ptr), the
\* content of the block it points to (mem), and what became of the block
\* v.data pointed to when NULL is returned (old, oldmem).  On success the
\* content is kept up to the smaller of the two sizes.  On failure the old
\* block is untouched; realloc(p, 0) may instead free p and return NULL.
HC_REALLOC(v, bytes, es) ==
    LET n == Slots(bytes, es)
        moved == [i \in 1..n |-> IF i <= Len(v.mem) THEN v.mem[i] ELSE Uninit]
    IN  {[ptr |-> "live", mem |-> moved, old |-> v.data, oldmem |-> v.mem],
         [ptr |-> "NULL", mem |-> <<>>, old |-> v.data, oldmem |-> v.mem]}
        \cup (IF bytes = 0 /\ v.data # "NULL"
              THEN {[ptr |-> "NULL", mem |-> <<>>, old |-> "freed", oldmem |-> <<>>]}
              ELSE {})

\* memmove(data + dst, data + src, bytes) and memcpy(data + dst, elems, ..):
\* offsets in bytes.  A slot outside the block is not modelled: a write to it
\* is dropped, a read of it gives Uninit.
\* a copy that runs forward slot by slot, as memcpy may: it reads slots it
\* has already written when the destination overlaps the source from above
RECURSIVE CopyForward(_, _, _, _)
CopyForward(m, d, s, n) ==
    IF n = 0 THEN m
    ELSE CopyForward(IF d + 1 <= Len(m)
                     THEN [m EXCEPT ![d + 1] = IF s + 1 <= Len(m) THEN m[s + 1]
                                               ELSE Uninit]
                     ELSE m,
                     d + 1, s + 1, n - 1)

MemMoveForward(m, dst, src, bytes, es) ==
    IF es = 0 \/ bytes = 0 THEN m
    ELSE CopyForward(m, dst \div es, src \div es, bytes \div es)

MemMove(m, dst, src, bytes, es) ==
    IF es = 0 \/ bytes = 0 THEN m
    ELSE LET d == dst \div es
             s == src \div es
             n == bytes \div es
         IN  [i \in 1..Len(m) |->
                IF i - 1 >= d /\ i - 1 < d + n
                THEN (IF i - d + s <= Len(m) THEN m[i - d + s] ELSE Uninit)
                ELSE m[i]]

MemCpy(m, dst, elems, es) ==
    IF es = 0 THEN m
    ELSE LET d == dst \div es
         IN  [i \in 1..Len(m) |->
                IF i - 1 >= d /\ i - 1 < d + Len(elems) THEN elems[i - d]
                ELSE m[i]]

\* memset(p, 0, elem_size): the all-zero element
ZeroElem == 0

\* the memset is missing: the slot of a NULL element is left unwritten
ElemOrZeroNoMemset(element) == IF element = <<>> THEN Uninit ELSE element[1]

\* An element pointer argument is <<>> (NULL) or <<x>> (it points to x).
\* if (element) memcpy(target, element, elem_size);
\* else memset(target, 0, elem_size);
ElemOrZero(element) == IF element = <<>> THEN ZeroElem ELSE element[1]

\* memcpy(element, data + off, elem_size): what is written through the out
\* pointer `element`.  Nothing when it is NULL (has_out is FALSE) or when
\* elem_size is 0.
Load(v, off, has_out) ==
    IF ~has_out \/ v.elem_size = 0 THEN <<>>
    ELSE IF off \div v.elem_size < Len(v.mem)
         THEN <<v.mem[off \div v.elem_size + 1]>>
         ELSE <<Uninit>>

---------------------------------------------------------------------------
(* The functions of hc_array.h. *)

\* hc_array_t vec = { 0 };
ZeroVec == [data |-> "NULL", count |-> 0, capacity |-> 0, elem_size |-> 0,
            mem |-> <<>>]

\* ret is <<>> for a void function and <<code>> for one that returns a code;
\* out is <<>> when nothing was written through an out pointer.
Void == <<>>
Outcome(v, r, o) == [vec |-> v, ret |-> r, out |-> o]
Status(v, code) == Outcome(v, <<code>>, <<>>)
Done(v) == Outcome(v, Void, <<>>)

\* create without the test of elem_size
hc_array_create_any_size(capacity, elem_size) ==
    IF capacity = 0 THEN {Done(ZeroVec)}
    ELSE {IF p.ptr = "NULL" THEN Done(ZeroVec)
          ELSE Done([data |-> p.ptr, count |-> 0, capacity |-> capacity,
                     elem_size |-> elem_size, mem |-> p.mem])
          : p \in HC_MALLOC(Wrap(capacity * elem_size), elem_size)}

hc_array_create(capacity, elem_size) ==
    IF capacity = 0 \/ elem_size = 0 THEN {Done(ZeroVec)}
    ELSE {IF p.ptr = "NULL" THEN Done(ZeroVec)
          ELSE Done([data |-> p.ptr, count |-> 0, capacity |-> capacity,
                     elem_size |-> elem_size, mem |-> p.mem])
          : p \in HC_MALLOC(Wrap(capacity * elem_size), elem_size)}

\* what hc_array_destroy hands to HC_FREE: <<>> when it frees nothing, else
\* <<s>>, s being the state of the block data points to
hc_array_destroy_frees(v) == IF v.data # "NULL" THEN <<v.data>> ELSE <<>>

hc_array_destroy(v) ==
    LET w == IF v.data # "NULL"
             THEN [v EXCEPT !.data = "NULL", !.mem = <<>>]
             ELSE v
    IN  {Done([w EXCEPT !.count = 0, !.capacity = 0, !.elem_size = 0])}

\* copy that gives the copy the capacity of the source
hc_array_copy_keeps_capacity(src) ==
    LET size_in_bytes == Wrap(src.count * src.elem_size)
    IN  IF size_in_bytes = 0 THEN {Done(ZeroVec)}
        ELSE {IF p.ptr = "NULL" THEN Done(ZeroVec)
              ELSE Done([data |-> p.ptr,
                         count |-> src.count,
                         capacity |-> src.capacity,
                         elem_size |-> src.elem_size,
                         mem |-> [i \in 1..Len(p.mem) |->
                                    IF i <= Len(src.mem) THEN src.mem[i]
                                    ELSE Uninit]])
              : p \in HC_MALLOC(size_in_bytes, src.elem_size)}

hc_array_copy(src) ==
    LET size_in_bytes == Wrap(src.count * src.elem_size)
    IN  IF size_in_bytes = 0 THEN {Done(ZeroVec)}
        ELSE {IF p.ptr = "NULL" THEN Done(ZeroVec)
              ELSE Done([data |-> p.ptr,
                         count |-> src.count,
                         capacity |-> src.count,
                         elem_size |-> src.elem_size,
                         mem |-> [i \in 1..Len(p.mem) |->
                                    IF i <= Len(src.mem) THEN src.mem[i]
                                    ELSE Uninit]])
              : p \in HC_MALLOC(size_in_bytes, src.elem_size)}

hc_array_is_valid(v) ==
    v.data # "NULL" /\ v.capacity > 0 /\ v.elem_size > 0

hc_array_is_empty(v) == v.count = 0

\* reserve that allocates a new block and does not copy the old content
hc_array_reserve_no_copy(v, new_capacity) ==
    IF v.capacity >= new_capacity THEN {Status(v, HC_ARRAY_SUCCESS)}
    ELSE {IF p.ptr = "NULL" THEN Status(v, HC_ARRAY_ERROR_OUT_OF_MEMORY)
          ELSE Status([v EXCEPT !.data = p.ptr, !.mem = p.mem,
                                !.capacity = new_capacity],
                      HC_ARRAY_SUCCESS)
          : p \in HC_MALLOC(Wrap(new_capacity * v.elem_size), v.elem_size)}

\* reserve without the test of the current capacity: it reallocates to
\* new_capacity even when that is less
hc_array_reserve_exact(v, new_capacity) ==
    {IF r.ptr = "NULL"
     THEN Status([v EXCEPT !.data = r.old, !.mem = r.oldmem],
                 HC_ARRAY_ERROR_OUT_OF_MEMORY)
     ELSE Status([v EXCEPT !.data = r.ptr, !.mem = r.mem,
                           !.capacity = new_capacity],
                 HC_ARRAY_SUCCESS)
     : r \in HC_REALLOC(v, Wrap(new_capacity * v.elem_size), v.elem_size)}

hc_array_reserve(v, new_capacity) ==
    IF v.capacity >= new_capacity THEN {Status(v, HC_ARRAY_SUCCESS)}
    ELSE {IF r.ptr = "NULL"
          THEN Status([v EXCEPT !.data = r.old, !.mem = r.oldmem],
                      HC_ARRAY_ERROR_OUT_OF_MEMORY)
          ELSE Status([v EXCEPT !.data = r.ptr, !.mem = r.mem,
                                !.capacity = new_capacity],
                      HC_ARRAY_SUCCESS)
          : r \in HC_REALLOC(v, Wrap(new_capacity * v.elem_size), v.elem_size)}

\* shrink_to_fit without the test of count == 0
hc_array_shrink_to_fit_to_zero(v) ==
    IF v.count = v.capacity THEN {Status(v, 1)}
    ELSE {IF r.ptr = "NULL"
          THEN Status([v EXCEPT !.data = r.old, !.mem = r.oldmem],
                      HC_ARRAY_ERROR_OUT_OF_MEMORY)
          ELSE Status([v EXCEPT !.data = r.ptr, !.mem = r.mem,
                                !.capacity = v.count],
                      HC_ARRAY_SUCCESS)
          : r \in HC_REALLOC(v, Wrap(v.count * v.elem_size), v.elem_size)}

\* shrink_to_fit that reallocates and forgets to record the new capacity
hc_array_shrink_to_fit_keeps_capacity(v) ==
    IF v.count = v.capacity THEN {Status(v, 1)}
    ELSE IF v.count = 0 THEN {Status(v, HC_ARRAY_EMPTY)}
    ELSE {IF r.ptr = "NULL"
          THEN Status([v EXCEPT !.data = r.old, !.mem = r.oldmem],
                      HC_ARRAY_ERROR_OUT_OF_MEMORY)
          ELSE Status([v EXCEPT !.data = r.ptr, !.mem = r.mem],
                      HC_ARRAY_SUCCESS)
          : r \in HC_REALLOC(v, Wrap(v.count * v.elem_size), v.elem_size)}

hc_array_shrink_to_fit(v) ==
    IF v.count = v.capacity THEN {Status(v, 1)}
    ELSE IF v.count = 0 THEN {Status(v, HC_ARRAY_EMPTY)}
    ELSE {IF r.ptr = "NULL"
          THEN Status([v EXCEPT !.data = r.old, !.mem = r.oldmem],
                      HC_ARRAY_ERROR_OUT_OF_MEMORY)
          ELSE Status([v EXCEPT !.data = r.ptr, !.mem = r.mem,
                                !.capacity = v.count],
                      HC_ARRAY_SUCCESS)
          : r \in HC_REALLOC(v, Wrap(v.count * v.elem_size), v.elem_size)}

\* clear that forgets the capacity as well
hc_array_clear_drops_capacity(v) ==
    {Done([v EXCEPT !.count = 0, !.capacity = 0])}

hc_array_clear(v) == {Done([v EXCEPT !.count = 0])}

\* fill that stops at count instead of capacity
hc_array_fill_live_only(v, data) ==
    LET end == Wrap(v.count * v.elem_size)
        n == IF v.elem_size = 0 THEN 0
             ELSE (end + v.elem_size - 1) \div v.elem_size
    IN  {Done([v EXCEPT !.mem = [i \in 1..Len(v.mem) |->
                                    IF i <= n THEN data ELSE v.mem[i]],
                        !.count = v.capacity])}

\* the loop runs while ptr < end, ptr advancing by elem_size from data
hc_array_fill(v, data) ==
    LET end == Wrap(v.capacity * v.elem_size)
        n == IF v.elem_size = 0 THEN 0
             ELSE (end + v.elem_size - 1) \div v.elem_size
    IN  {Done([v EXCEPT !.mem = [i \in 1..Len(v.mem) |->
                                    IF i <= n THEN data ELSE v.mem[i]],
                        !.count = v.capacity])}

\* "increase the capacity of the array to the nearest power of two", as
\* hc_array_insert writes it out
insert_new_size(new_size) ==
    IF BitAnd(new_size, Wrap(new_size + SizeMod - 1)) = 0
    THEN Wrap(new_size * 2)
    ELSE LET s0 == Wrap(new_size + SizeMod - 1)
             s1 == OrShr(s0, 1)
             s2 == OrShr(s1, 2)
             s3 == OrShr(s2, 4)
             s4 == OrShr(s3, 8)
             s5 == OrShr(s4, 16)
             s6 == OrShr(s5, 32)
         IN  Wrap(s6 + 1)

hc_array_insert(v, index, elements, count) ==
    IF index > v.count THEN {Status(v, HC_ARRAY_ERROR_OUT_OF_BOUNDS)}
    ELSE
    LET size == Wrap(v.count + count)
        Place(w, new_size) ==
            LET es == w.elem_size
                destination == Wrap((index + count) * es)
                source == Wrap(index * es)
                bytes_to_move == Wrap((w.count - index) * es)
                moved == MemMove(w.mem, destination, source, bytes_to_move, es)
                target == Wrap(index * es)
            IN  Status([w EXCEPT
                          !.mem = MemCpy(moved, target,
                                         SubSeq(elements, 1, count), es),
                          !.count = new_size],
                       HC_ARRAY_SUCCESS)
    IN  IF size > v.capacity
        THEN LET new_size == insert_new_size(size)
             IN  {IF r.ret[1] < 0 THEN r ELSE Place(r.vec, new_size)
                  : r \in hc_array_reserve(v, new_size)}
        ELSE {Place(v, size)}

\* at that accepts index == count
hc_array_at_past_end(v, index) ==
    IF index > v.count THEN <<>> ELSE <<Wrap(index * v.elem_size)>>

\* the byte offset of the element, <<off>>, or <<>> for NULL
hc_array_at(v, index) ==
    IF index >= v.count THEN <<>> ELSE <<Wrap(index * v.elem_size)>>

push_back_new_size(new_size) ==
    IF BitAnd(new_size, Wrap(new_size + SizeMod - 1)) = 0
    THEN Wrap(new_size * 2)
    ELSE LET s0 == Wrap(new_size + SizeMod - 1)
             s1 == OrShr(s0, 1)
             s2 == OrShr(s1, 2)
             s3 == OrShr(s2, 4)
             s4 == OrShr(s3, 8)
             s5 == OrShr(s4, 16)
             s6 == OrShr(s5, 32)
         IN  Wrap(s6 + 1)

\* push_back that grows only when count > capacity
hc_array_push_back_late_growth(v, element) ==
    LET Place(w) ==
            LET target == Wrap(w.count * w.elem_size)
            IN  Status([w EXCEPT
                          !.mem = MemCpy(w.mem, target,
                                         <<ElemOrZero(element)>>, w.elem_size),
                          !.count = Wrap(w.count + 1)],
                       HC_ARRAY_SUCCESS)
    IN  IF v.count > v.capacity
        THEN LET new_size == push_back_new_size(Wrap(v.count + 1))
             IN  {IF r.ret[1] < 0 THEN r ELSE Place(r.vec)
                  : r \in hc_array_reserve(v, new_size)}
        ELSE {Place(v)}

hc_array_push_back(v, element) ==
    LET Place(w) ==
            LET target == Wrap(w.count * w.elem_size)
            IN  Status([w EXCEPT
                          !.mem = MemCpy(w.mem, target,
                                         <<ElemOrZero(element)>>, w.elem_size),
                          !.count = Wrap(w.count + 1)],
                       HC_ARRAY_SUCCESS)
    IN  IF v.count >= v.capacity
        THEN LET new_size == push_back_new_size(Wrap(v.count + 1))
             IN  {IF r.ret[1] < 0 THEN r ELSE Place(r.vec)
                  : r \in hc_array_reserve(v, new_size)}
        ELSE {Place(v)}

push_front_new_size(new_size) ==
    IF BitAnd(new_size, Wrap(new_size + SizeMod - 1)) = 0
    THEN Wrap(new_size * 2)
    ELSE LET s0 == Wrap(new_size + SizeMod - 1)
             s1 == OrShr(s0, 1)
             s2 == OrShr(s1, 2)
             s3 == OrShr(s2, 4)
             s4 == OrShr(s3, 8)
             s5 == OrShr(s4, 16)
             s6 == OrShr(s5, 32)
         IN  Wrap(s6 + 1)

\* push_front that grows only when count > capacity
hc_array_push_front_late_growth(v, element) ==
    LET Place(w) ==
            LET es == w.elem_size
                destination == es
                source == 0
                bytes_to_move == Wrap(w.count * es)
                moved == MemMove(w.mem, destination, source, bytes_to_move, es)
            IN  Status([w EXCEPT
                          !.mem = MemCpy(moved, 0, <<ElemOrZero(element)>>, es),
                          !.count = Wrap(w.count + 1)],
                       HC_ARRAY_SUCCESS)
    IN  IF v.count > v.capacity
        THEN LET new_size == push_front_new_size(Wrap(v.count + 1))
             IN  {IF r.ret[1] < 0 THEN r ELSE Place(r.vec)
                  : r \in hc_array_reserve(v, new_size)}
        ELSE {Place(v)}

hc_array_push_front(v, element) ==
    LET Place(w) ==
            LET es == w.elem_size
                destination == es
                source == 0
                bytes_to_move == Wrap(w.count * es)
                moved == MemMove(w.mem, destination, source, bytes_to_move, es)
            IN  Status([w EXCEPT
                          !.mem = MemCpy(moved, 0, <<ElemOrZero(element)>>, es),
                          !.count = Wrap(w.count + 1)],
                       HC_ARRAY_SUCCESS)
    IN  IF v.count >= v.capacity
        THEN LET new_size == push_front_new_size(Wrap(v.count + 1))
             IN  {IF r.ret[1] < 0 THEN r ELSE Place(r.vec)
                  : r \in hc_array_reserve(v, new_size)}
        ELSE {Place(v)}

\* the rounding without the doubling of a size that is a power of two
push_at_new_size_tight(new_size) ==
    LET s0 == Wrap(new_size + SizeMod - 1)
        s1 == OrShr(s0, 1)
        s2 == OrShr(s1, 2)
        s3 == OrShr(s2, 4)
        s4 == OrShr(s3, 8)
        s5 == OrShr(s4, 16)
        s6 == OrShr(s5, 32)
    IN  Wrap(s6 + 1)

push_at_new_size(new_size) ==
    IF BitAnd(new_size, Wrap(new_size + SizeMod - 1)) = 0
    THEN Wrap(new_size * 2)
    ELSE LET s0 == Wrap(new_size + SizeMod - 1)
             s1 == OrShr(s0, 1)
             s2 == OrShr(s1, 2)
             s3 == OrShr(s2, 4)
             s4 == OrShr(s3, 8)
             s5 == OrShr(s4, 16)
             s6 == OrShr(s5, 32)
         IN  Wrap(s6 + 1)

\* push_at that rejects only index > count
hc_array_push_at_accepts_count(v, index, element) ==
    IF index > v.count THEN {Status(v, HC_ARRAY_ERROR_OUT_OF_BOUNDS)}
    ELSE
    LET Place(w) ==
            LET es == w.elem_size
                destination == Wrap(index * es)
                source == Wrap(index * es)
                bytes_to_move == Wrap((w.count - index) * es)
                moved == MemMove(w.mem, destination, source, bytes_to_move, es)
            IN  Status([w EXCEPT
                          !.mem = MemCpy(moved, source,
                                         <<ElemOrZero(element)>>, es),
                          !.count = Wrap(w.count + 1)],
                       HC_ARRAY_SUCCESS)
    IN  IF v.count >= v.capacity
        THEN LET new_size == push_at_new_size(Wrap(v.count + 1))
             IN  {IF r.ret[1] < 0 THEN r ELSE Place(r.vec)
                  : r \in hc_array_reserve(v, new_size)}
        ELSE {Place(v)}

\* destination and source are the same address in the source
hc_array_push_at(v, index, element) ==
    IF index >= v.count THEN {Status(v, HC_ARRAY_ERROR_OUT_OF_BOUNDS)}
    ELSE
    LET Place(w) ==
            LET es == w.elem_size
                destination == Wrap(index * es)
                source == Wrap(index * es)
                bytes_to_move == Wrap((w.count - index) * es)
                moved == MemMove(w.mem, destination, source, bytes_to_move, es)
            IN  Status([w EXCEPT
                          !.mem = MemCpy(moved, source,
                                         <<ElemOrZero(element)>>, es),
                          !.count = Wrap(w.count + 1)],
                       HC_ARRAY_SUCCESS)
    IN  IF v.count >= v.capacity
        THEN LET new_size == push_at_new_size(Wrap(v.count + 1))
             IN  {IF r.ret[1] < 0 THEN r ELSE Place(r.vec)
                  : r \in hc_array_reserve(v, new_size)}
        ELSE {Place(v)}

\* pop_back that reads the slot after the last element
hc_array_pop_back_reads_end(v, has_out) ==
    IF v.count = 0 THEN {Status(v, HC_ARRAY_EMPTY)}
    ELSE LET w == [v EXCEPT !.count = v.count - 1]
             source == Wrap(v.count * w.elem_size)
         IN  {Outcome(w, <<HC_ARRAY_SUCCESS>>, Load(w, source, has_out))}

\* has_out: the out pointer `element` is not NULL
hc_array_pop_back(v, has_out) ==
    IF v.count = 0 THEN {Status(v, HC_ARRAY_EMPTY)}
    ELSE LET w == [v EXCEPT !.count = v.count - 1]
             source == Wrap(w.count * w.elem_size)
         IN  {Outcome(w, <<HC_ARRAY_SUCCESS>>, Load(w, source, has_out))}

\* pop_front that copies the element out after the shift
hc_array_pop_front_copies_late(v, has_out) ==
    IF v.count = 0 THEN {Status(v, HC_ARRAY_EMPTY)}
    ELSE LET es == v.elem_size
             source == es
             destination == 0
             bytes_to_move == Wrap((v.count - 1) * es)
             w == [v EXCEPT
                     !.mem = MemMove(v.mem, destination, source,
                                     bytes_to_move, es),
                     !.count = v.count - 1]
         IN  {Outcome(w, <<HC_ARRAY_SUCCESS>>, Load(w, 0, has_out))}

hc_array_pop_front(v, has_out) ==
    IF v.count = 0 THEN {Status(v, HC_ARRAY_EMPTY)}
    ELSE LET es == v.elem_size
             source == es
             destination == 0
             bytes_to_move == Wrap((v.count - 1) * es)
         IN  {Outcome([v EXCEPT
                         !.mem = MemMove(v.mem, destination, source,
                                         bytes_to_move, es),
                         !.count = v.count - 1],
                      <<HC_ARRAY_SUCCESS>>, Load(v, 0, has_out))}

\* pop_at that does not move the elements after the hole
hc_array_pop_at_no_shift(v, index, has_out) ==
    IF index >= v.count THEN {Status(v, HC_ARRAY_ERROR_OUT_OF_BOUNDS)}
    ELSE {Outcome([v EXCEPT !.count = v.count - 1],
                  <<HC_ARRAY_SUCCESS>>,
                  Load(v, Wrap(index * v.elem_size), has_out))}

hc_array_pop_at(v, index, has_out) ==
    IF index >= v.count THEN {Status(v, HC_ARRAY_ERROR_OUT_OF_BOUNDS)}
    ELSE LET es == v.elem_size
             destination == Wrap(index * es)
             source_start == Wrap((index + 1) * es)
             bytes_to_move == Wrap((v.count - index - 1) * es)
         IN  {Outcome([v EXCEPT
                         !.mem = MemMove(v.mem, destination, source_start,
                                         bytes_to_move, es),
                         !.count = v.count - 1],
                      <<HC_ARRAY_SUCCESS>>,
                      Load(v, Wrap(index * es), has_out))}

---------------------------------------------------------------------------
(* The byte ranges of the storage a call that goes through reads or        *)
(* writes: [off, off + len), off counted from data.  v is the array the    *)
(* call is made on; the growth, if any, does not change count or           *)
(* elem_size, which is all the ranges depend on.                           *)

Range(off, len) == [off |-> off, len |-> len]

hc_array_fill_ranges(v) ==
    LET end == Wrap(v.capacity * v.elem_size)
        n == IF v.elem_size = 0 THEN 0
             ELSE (end + v.elem_size - 1) \div v.elem_size
    IN  {Range(Wrap(k * v.elem_size), v.elem_size) : k \in 0..(n - 1)}

hc_array_insert_ranges(v, index, count) ==
    LET es == v.elem_size
        destination == Wrap((index + count) * es)
        source == Wrap(index * es)
        bytes_to_move == Wrap((v.count - index) * es)
        target == Wrap(index * es)
    IN  {Range(destination, bytes_to_move), Range(source, bytes_to_move),
         Range(target, Wrap(count * es))}

hc_array_push_back_ranges(v) ==
    LET target == Wrap(v.count * v.elem_size)
    IN  {Range(target, v.elem_size)}

hc_array_push_front_ranges(v) ==
    LET es == v.elem_size
        destination == es
        source == 0
        bytes_to_move == Wrap(v.count * es)
    IN  {Range(destination, bytes_to_move), Range(source, bytes_to_move),
         Range(0, es)}

hc_array_push_at_ranges(v, index) ==
    LET es == v.elem_size
        destination == Wrap(index * es)
        source == Wrap(index * es)
        bytes_to_move == Wrap((v.count - index) * es)
    IN  {Range(destination, bytes_to_move), Range(source, bytes_to_move),
         Range(source, es)}

\* has_out: the out pointer is not NULL and element 0 is read
hc_array_pop_front_ranges(v, has_out) ==
    LET es == v.elem_size
        source == es
        destination == 0
        bytes_to_move == Wrap((v.count - 1) * es)
    IN  {Range(destination, bytes_to_move), Range(source, bytes_to_move)}
        \cup (IF has_out THEN {Range(0, es)} ELSE {})

hc_array_pop_at_ranges(v, index, has_out) ==
    LET es == v.elem_size
        destination == Wrap(index * es)
        source_start == Wrap((index + 1) * es)
        bytes_to_move == Wrap((v.count - index - 1) * es)
    IN  {Range(destination, bytes_to_move), Range(source_start, bytes_to_move)}
        \cup (IF has_out THEN {Range(Wrap(index * es), es)} ELSE {})

---------------------------------------------------------------------------
(* The functions of hc_string.h.  The string is the record str = [data,    *)
(* length, capacity, mem]; mem is the content of the block data points to, *)
(* one entry per char: a character of Chars, NUL or Uninit.                *)

\* hc_string_t new_str = { 0 };
ZeroStr == [data |-> "NULL", length |-> 0, capacity |-> 0, mem |-> <<>>]

\* A const char* argument is <<>> for NULL and <<w>> for the string whose
\* characters before the NUL are the sequence w.  An outcome is the string
\* after the call and what the call returned.
StrOutcome(s, r) == [str |-> s, ret |-> r]
StrStatus(s, code) == StrOutcome(s, <<code>>)

\* The call wrote or read outside the storage: what the program does from
\* there on is not defined, and the model does not follow it further.
Overrun(s) == [s EXCEPT !.data = "overrun"]

\* strlen(m): the number of chars before the first NUL
strlen(m) ==
    IF \E i \in 1..Len(m) : m[i] = NUL
    THEN (CHOOSE i \in 1..Len(m) :
              m[i] = NUL /\ \A j \in 1..(i - 1) : m[j] # NUL) - 1
    ELSE Len(m)

\* the characters a reader of the C string finds
Text(m) == SubSeq(m, 1, strlen(m))

\* the block m after the chars of bytes were stored from offset off on
Store(m, off, bytes) ==
    [i \in 1..Len(m) |-> IF i > off /\ i <= off + Len(bytes)
                          THEN bytes[i - off] ELSE m[i]]

\* HC_CALLOC(n, sizeof(char)): n chars, all zero
Zeros(n) == [i \in 1..n |-> NUL]

\* HC_REALLOC(s.data, n): the block or NULL
StrRealloc(s, n) ==
    {[ok |-> TRUE,
      str |-> [s EXCEPT !.mem = [i \in 1..n |-> IF i <= Len(s.mem)
                                                 THEN s.mem[i] ELSE Uninit],
                        !.capacity = n]],
     [ok |-> FALSE, str |-> s]}

hc_string_create(capacity) ==
    {[data |-> "live", length |-> 0, capacity |-> capacity,
      mem |-> Zeros(capacity)],
     [data |-> "NULL", length |-> 0, capacity |-> capacity, mem |-> <<>>]}

hc_string_create_from_cstr(cstr) ==
    IF cstr = <<>> THEN {StrOutcome(ZeroStr, Void)}
    ELSE LET length == Len(cstr[1])
         IN  {StrOutcome(ZeroStr, Void),
              StrOutcome([data |-> "live", length |-> length,
                          capacity |-> length + 1,
                          mem |-> cstr[1] \o <<NUL>>], Void)}

hc_string_destroy(s) ==
    IF s.data # "NULL" THEN {StrOutcome(ZeroStr, Void)}
    ELSE {StrOutcome(s, Void)}

hc_string_concat(dst, src) ==
    IF dst.data = "NULL" THEN {StrStatus(dst, HC_STRING_ERROR_INVALID_DST)}
    ELSE IF src = <<>> THEN {StrStatus(dst, HC_STRING_ERROR_INVALID_SRC)}
    ELSE
    LET src_length == Len(src[1])
        new_length == dst.length + src_length
        new_capacity == (new_length + 1) * 2
        grown == IF new_length + 1 > dst.capacity
                 THEN StrRealloc(dst, new_capacity)
                 ELSE {[ok |-> TRUE, str |-> dst]}
        \* strcat(dst->data, src); dst->length = new_length;
        Cat(d) == LET end == strlen(d.mem)
                  IN  IF end + src_length + 1 > Len(d.mem)
                      THEN Overrun([d EXCEPT !.length = new_length])
                      ELSE [d EXCEPT !.mem = Store(d.mem, end,
                                                   src[1] \o <<NUL>>),
                                     !.length = new_length]
    IN  {IF g.ok THEN StrStatus(Cat(g.str), HC_STRING_SUCCESS)
         ELSE StrStatus(dst, HC_STRING_ERROR_INVALID_DST) : g \in grown}

\* strstr(ptr, old_word) in a loop, ptr += old_len after each find
RECURSIVE Occurrences(_, _)
Occurrences(text, old) ==
    IF Len(text) < Len(old) THEN 0
    ELSE IF SubSeq(text, 1, Len(old)) = old
    THEN 1 + Occurrences(SubSeq(text, Len(old) + 1, Len(text)), old)
    ELSE Occurrences(Tail(text), old)

\* the loop "while (*src)" of hc_string_replace: what it stores at dst
RECURSIVE Replaced(_, _, _)
Replaced(text, old, new) ==
    IF text = <<>> THEN <<>>
    ELSE IF Len(text) >= Len(old) /\ SubSeq(text, 1, Len(old)) = old
    THEN new \o Replaced(SubSeq(text, Len(old) + 1, Len(text)), old, new)
    ELSE <<Head(text)>> \o Replaced(Tail(text), old, new)

\* old_word is not the empty string: with it the counting loop does not end
hc_string_replace(s, old_word, new_word) ==
    IF s.data = "NULL" \/ s.length = 0
    THEN {StrStatus(s, HC_STRING_ERROR_INVALID_DST)}
    ELSE IF old_word = <<>> \/ new_word = <<>>
    THEN {StrStatus(s, HC_STRING_ERROR_INVALID_SRC)}
    ELSE
    LET old_len == Len(old_word[1])
        new_len == Len(new_word[1])
        occurrences == Occurrences(Text(s.mem), old_word[1])
        result_len == s.length + occurrences * (new_len - old_len)
        copied == Replaced(Text(s.mem), old_word[1], new_word[1]) \o <<NUL>>
    IN  \* a result_len + 1 below 0 is a size_t near SIZE_MAX
        IF result_len + 1 < 0
        THEN {StrStatus(s, HC_STRING_ERROR_OUT_OF_MEMORY)}
        ELSE {IF result.data = "NULL"
              THEN StrStatus(s, HC_STRING_ERROR_OUT_OF_MEMORY)
              ELSE IF Len(copied) > result.capacity
              THEN StrStatus(Overrun(result), HC_STRING_SUCCESS)
              \* *str = result;
              ELSE StrStatus([result EXCEPT !.mem = Store(result.mem, 0,
                                                         copied)],
                             HC_STRING_SUCCESS)
              : result \in hc_string_create(result_len + 1)}

\* while (isspace((unsigned char)*start)) start++;
LeadingSpaces(m) ==
    CHOOSE i \in 0..Len(m) :
        /\ \A j \in 1..i : m[j] = Space
        /\ (i = Len(m) \/ m[i + 1] # Space)

\* while (end > start && isspace((unsigned char)*end)) end--;
RECURSIVE TrailingEnd(_, _, _)
TrailingEnd(m, start, end) ==
    IF end > start /\ m[end + 1] = Space THEN TrailingEnd(m, start, end - 1)
    ELSE end

hc_string_trim(s) ==
    IF s.data = "NULL" \/ s.length = 0
    THEN {StrStatus(s, HC_STRING_ERROR_INVALID_DST)}
    ELSE
    LET start == LeadingSpaces(s.mem)
        end == TrailingEnd(s.mem, start, s.length - 1)
        new_length == end - start + 1
    IN  \* a new_length below 0 is a size_t near SIZE_MAX
        IF new_length < 0
        THEN {StrStatus(Overrun(s), HC_STRING_SUCCESS)}
        ELSE {StrStatus(
                [s EXCEPT !.mem = Store(Store(s.mem, 0,
                                              SubSeq(s.mem, start + 1,
                                                     start + new_length)),
                                        new_length, <<NUL>>),
                          !.length = new_length],
                HC_STRING_SUCCESS)}

\* "increase the capacity of the string to the nearest power of two", as
\* hc_string_append_char writes it out
append_char_new_capacity(new_capacity) ==
    IF BitAnd(new_capacity, Wrap(new_capacity + SizeMod - 1)) = 0
    THEN Wrap(new_capacity * 2)
    ELSE LET s0 == Wrap(new_capacity + SizeMod - 1)
             s1 == OrShr(s0, 1)
             s2 == OrShr(s1, 2)
             s3 == OrShr(s2, 4)
             s4 == OrShr(s3, 8)
             s5 == OrShr(s4, 16)
             s6 == OrShr(s5, 32)
         IN  Wrap(s6 + 1)

hc_string_append_char(s, c) ==
    IF s.data = "NULL" THEN {StrStatus(s, HC_STRING_ERROR_INVALID_DST)}
    ELSE
    LET grown == IF s.length + 1 >= s.capacity
                 THEN StrRealloc(s, append_char_new_capacity(s.capacity + 1))
                 ELSE {[ok |-> TRUE, str |-> s]}
        \* str->data[str->length++] = c; str->data[str->length] = '\0';
        Put(d) == IF d.length + 2 > Len(d.mem)
                  THEN Overrun([d EXCEPT !.length = d.length + 1])
                  ELSE [d EXCEPT !.mem = Store(d.mem, d.length, <<c, NUL>>),
                                 !.length = d.length + 1]
    IN  {IF g.ok THEN StrStatus(Put(g.str), HC_STRING_SUCCESS)
         ELSE StrStatus(s, HC_STRING_ERROR_OUT_OF_MEMORY) : g \in grown}

hc_string_substring(s, start, length) ==
    IF s.data = "NULL" \/ start >= s.length
    THEN {StrStatus(s, HC_STRING_ERROR_INVALID_DST)}
    ELSE
    LET max_length == s.length - start
        len == IF length > max_length THEN max_length ELSE length
    IN  {StrStatus(
           [s EXCEPT !.mem = Store(Store(s.mem, 0,
                                         SubSeq(s.mem, start + 1, start + len)),
                                   len, <<NUL>>),
                     !.length = len],
           HC_STRING_SUCCESS)}

---------------------------------------------------------------------------
(* The program: a caller that applies the functions to one array. *)

Init ==
    /\ vec = ZeroVec
    /\ op = "init"
    /\ before = [count |-> 0, capacity |-> 0]
    /\ ret = Void
    /\ out = <<>>
    /\ pushed = [capacity |-> 0, values |-> <<>>]
    /\ dup = ZeroVec
    /\ addr = [vec |-> 0, dup |-> 0, copied |-> FALSE, last |-> "none"]
    /\ str = ZeroStr

\* one call: any outcome of it whose allocation is within the model's bound
Call(name, outcomes) ==
    \E r \in outcomes :
        /\ r.vec.capacity <= MaxCap
        /\ vec' = r.vec
        /\ op' = name
        /\ before' = [count |-> vec.count, capacity |-> vec.capacity]
        /\ ret' = r.ret
        /\ out' = r.out
        /\ UNCHANGED <<pushed, dup, addr, str>>

\* a caller creates an array only in a variable that holds none
Create ==
    /\ vec.data = "NULL"
    /\ \E c \in 0..MaxCap, es \in ElemSizes :
          Call("create", hc_array_create(c, es))

Destroy == Call("destroy", hc_array_destroy(vec))

\* the caller goes on with the copy
Copy == Call("copy", hc_array_copy(vec))

Reserve == \E n \in 0..MaxCap : Call("reserve", hc_array_reserve(vec, n))

ShrinkToFit == Call("shrink_to_fit", hc_array_shrink_to_fit(vec))

Clear == Call("clear", hc_array_clear(vec))

Fill == \E x \in Values : Call("fill", hc_array_fill(vec, x))

\* an element pointer argument: NULL, or a pointer to a value
ElemPtrs == {<<>>} \cup {<<x>> : x \in Values}

\* the element blocks a caller passes to insert
RECURSIVE SeqsUpTo(_, _)
SeqsUpTo(S, n) ==
    IF n = 0 THEN {<<>>}
    ELSE LET shorter == SeqsUpTo(S, n - 1)
         IN  shorter \cup {Append(q, x) : q \in shorter, x \in S}

\* the index arguments: every index below count, count, and count + 1
Indexes == 0..(vec.count + 1)

Insert ==
    \E i \in Indexes, es \in SeqsUpTo(Values, MaxInsert) :
        Call("insert", hc_array_insert(vec, i, es, Len(es)))

PushBack == \E e \in ElemPtrs : Call("push_back", hc_array_push_back(vec, e))

PushFront == \E e \in ElemPtrs : Call("push_front", hc_array_push_front(vec, e))

PushAt ==
    \E i \in Indexes, e \in ElemPtrs :
        Call("push_at", hc_array_push_at(vec, i, e))

PopBack == \E o \in BOOLEAN : Call("pop_back", hc_array_pop_back(vec, o))

PopFront == \E o \in BOOLEAN : Call("pop_front", hc_array_pop_front(vec, o))

PopAt ==
    \E i \in Indexes, o \in BOOLEAN :
        Call("pop_at", hc_array_pop_at(vec, i, o))

\* the caller pushes an element and calls pop_back at once
PushBackThenPopBack ==
    \E e \in ElemPtrs :
        Call("push_back;pop_back",
             UNION {hc_array_pop_back(r.vec, TRUE)
                    : r \in hc_array_push_back(vec, e)})

Next ==
    \/ Create
    \/ Destroy
    \/ Copy
    \/ Reserve
    \/ ShrinkToFit
    \/ Clear
    \/ Fill
    \/ Insert
    \/ PushBack
    \/ PushFront
    \/ PushAt
    \/ PopBack
    \/ PopFront
    \/ PopAt
    \/ PushBackThenPopBack

Spec == Init /\ [][Next]_vars

---------------------------------------------------------------------------
(* A second caller: it creates an array and then only calls push_back,     *)
(* and records what it created and what it pushed.                         *)

PushCreate ==
    /\ op = "init"
    /\ \E c \in PushCaps, es \in PushElemSizes :
          \E r \in hc_array_create(c, es) :
            /\ vec' = r.vec
            /\ op' = "create"
            /\ before' = [count |-> vec.count, capacity |-> vec.capacity]
            /\ ret' = r.ret
            /\ out' = r.out
            /\ pushed' = [capacity |-> r.vec.capacity, values |-> <<>>]
            /\ UNCHANGED <<dup, addr, str>>

PushPushBack ==
    /\ op # "init"
    /\ Len(pushed.values) < MaxPush
    /\ \E x \in PushValues :
          \E r \in hc_array_push_back(vec, <<x>>) :
            /\ vec' = r.vec
            /\ op' = "push_back"
            /\ before' = [count |-> vec.count, capacity |-> vec.capacity]
            /\ ret' = r.ret
            /\ out' = r.out
            /\ pushed' = IF r.ret = <<HC_ARRAY_SUCCESS>>
                         THEN [pushed EXCEPT !.values = Append(@, x)]
                         ELSE pushed
            /\ UNCHANGED <<dup, addr, str>>

PushNext ==
    \/ PushCreate
    \/ PushPushBack

PushSpec == Init /\ [][PushNext]_vars

---------------------------------------------------------------------------
(* A third caller: it creates an array of ints, pushes values, inspects    *)
(* the array with hc_array_at and calls shrink_to_fit twice in a row.      *)

ShrinkCall(name, outcomes) ==
    \E r \in outcomes :
        /\ r.vec.capacity <= MaxShrinkCap
        /\ vec' = r.vec
        /\ op' = name
        /\ before' = [count |-> vec.count, capacity |-> vec.capacity]
        /\ ret' = r.ret
        /\ out' = r.out
        /\ UNCHANGED <<pushed, dup, addr, str>>

ShrinkCreate ==
    /\ vec.data = "NULL"
    /\ \E c \in 0..MaxShrinkCap, es \in PushElemSizes :
          ShrinkCall("create", hc_array_create(c, es))

ShrinkPushBack ==
    /\ vec.count < MaxShrinkCount
    /\ \E x \in Values :
          ShrinkCall("push_back", hc_array_push_back(vec, <<x>>))

\* ret is the pointer hc_array_at returned
ShrinkAt ==
    \E i \in Indexes :
        ShrinkCall("at", {Outcome(vec, hc_array_at(vec, i), <<>>)})

ShrinkToFitTwice ==
    ShrinkCall("shrink_to_fit;shrink_to_fit",
               UNION {hc_array_shrink_to_fit(r.vec)
                      : r \in hc_array_shrink_to_fit(vec)})

ShrinkDestroy == ShrinkCall("destroy", hc_array_destroy(vec))

ShrinkNext ==
    \/ ShrinkCreate
    \/ ShrinkPushBack
    \/ ShrinkAt
    \/ ShrinkToFitTwice
    \/ ShrinkDestroy

ShrinkSpec == Init /\ [][ShrinkNext]_vars

---------------------------------------------------------------------------
(* A fourth caller: it asks for capacities near the top of size_t.  It     *)
(* creates an array, fills it, pushes onto the full array and reserves.    *)

\* half the range of size_t: twice as many bytes do not fit in a size_t
HalfRange == SizeMod \div 2

WrapCaps == {1, 2, HalfRange, HalfRange + 1}
WrapElemSizes == {2}

WrapCall(name, outcomes) ==
    \E r \in outcomes :
        /\ vec' = r.vec
        /\ op' = name
        /\ before' = [count |-> vec.count, capacity |-> vec.capacity]
        /\ ret' = r.ret
        /\ out' = r.out
        /\ UNCHANGED <<pushed, dup, addr, str>>

WrapCreate ==
    /\ vec.data = "NULL"
    /\ \E c \in WrapCaps, es \in WrapElemSizes :
          WrapCall("create", hc_array_create(c, es))

WrapReserve ==
    \E n \in {HalfRange, SizeMod - 1} :
        WrapCall("reserve", hc_array_reserve(vec, n))

WrapFill == \E x \in Values : WrapCall("fill", hc_array_fill(vec, x))

\* the caller pushes onto a full array only
WrapPushBack ==
    /\ vec.count >= vec.capacity
    /\ \E x \in Values :
          WrapCall("push_back", hc_array_push_back(vec, <<x>>))

WrapDestroy == WrapCall("destroy", hc_array_destroy(vec))

WrapNext ==
    \/ WrapCreate
    \/ WrapReserve
    \/ WrapFill
    \/ WrapPushBack
    \/ WrapDestroy

WrapSpec == Init /\ [][WrapNext]_vars

---------------------------------------------------------------------------
(* A fifth caller: it creates an array, copies it with hc_array_copy and   *)
(* goes on calling the functions on the source (vec) and on the copy       *)
(* (dup).  Here the data pointers have values: addr.vec and addr.dup are   *)
(* the addresses vec.data and dup.data hold, 0 for NULL.  A pointer keeps  *)
(* its value when the block it points to is released, and the allocator    *)
(* may hand out the address of a released block again.                     *)

Addrs == 1..MaxAddr

\* the address of the block the array y owns, if it owns one
LiveAt(y, ya) == IF y.data = "live" THEN {ya} ELSE {}

\* What a call with outcome r, made on the array x whose data holds xa,
\* does to x, to its pointer and to the other array y whose data holds ya.
\* HC_MALLOC and HC_REALLOC return an address at which no block is
\* allocated; realloc may also leave the block where it is.  HC_FREE and a
\* realloc that moves or releases the block release the block at the address
\* passed, whichever array owns it by now; what realloc does with a pointer
\* to a released block when it returns NULL is either.  Two arrays whose
\* pointers hold the address of one allocated block see the same bytes.
HeapAfter(x, xa, y, ya, r) ==
    LET allocated == r.vec.data = "live"
                     /\ (x.data # "live" \/ r.vec.capacity # x.capacity)
        released == \/ (x.data # "NULL" /\ r.vec.data = "NULL")
                    \/ (x.data = "live" /\ r.vec.data = "freed")
        stale == /\ x.data = "freed"
                 /\ r.vec.data = "freed"
                 /\ r.ret = <<HC_ARRAY_ERROR_OUT_OF_MEMORY>>
        places == IF allocated
                  THEN ({xa} \ {0}) \cup (Addrs \ LiveAt(y, ya))
                  ELSE IF r.vec.data = "NULL" THEN {0} ELSE {xa}
        Gone(a) == IF allocated THEN {a # xa /\ xa # 0}
                   ELSE IF released THEN {TRUE}
                   ELSE IF stale THEN {TRUE, FALSE}
                   ELSE {FALSE}
        Other(a, gone) ==
            IF y.data = "live" /\ ya = xa /\ gone
            THEN [y EXCEPT !.data = "freed", !.mem = <<>>]
            ELSE IF y.data = "live" /\ ya = a /\ r.vec.data = "live"
            THEN [y EXCEPT !.mem = [i \in 1..Len(y.mem) |->
                                      IF i <= Len(r.vec.mem) THEN r.vec.mem[i]
                                      ELSE y.mem[i]]]
            ELSE y
    IN  UNION {{[x |-> r.vec, xa |-> a, y |-> Other(a, g)] : g \in Gone(a)}
               : a \in places}

\* the calls the caller makes on either array
CopyOps(v) ==
    {[name |-> "push_back",
      outcomes |-> UNION {hc_array_push_back(v, <<x>>) : x \in Values}],
     [name |-> "insert",
      outcomes |-> UNION {hc_array_insert(v, 0, <<x>>, 1) : x \in Values}],
     [name |-> "pop_back", outcomes |-> hc_array_pop_back(v, FALSE)],
     [name |-> "fill",
      outcomes |-> UNION {hc_array_fill(v, x) : x \in Values}],
     [name |-> "clear", outcomes |-> hc_array_clear(v)],
     [name |-> "reserve",
      outcomes |-> UNION {hc_array_reserve(v, n) : n \in 1..MaxCopyCap}],
     [name |-> "shrink_to_fit", outcomes |-> hc_array_shrink_to_fit(v)],
     [name |-> "destroy", outcomes |-> hc_array_destroy(v)]}

CopyCreate ==
    /\ op = "init"
    /\ \E c \in 1..MaxCopyCap, es \in ElemSizes \ {0} :
          \E r \in hc_array_create(c, es) :
            \E a \in (IF r.vec.data = "live" THEN Addrs ELSE {0}) :
              /\ vec' = r.vec
              /\ addr' = [addr EXCEPT !.vec = a, !.last = "src"]
              /\ op' = "create"
              /\ before' = [count |-> vec.count, capacity |-> vec.capacity]
              /\ ret' = r.ret
              /\ out' = r.out
              /\ UNCHANGED <<pushed, dup, str>>

\* vec.data = HC_MALLOC(size_in_bytes): the copy holds the address malloc
\* returned
CopyCopy ==
    /\ op # "init"
    /\ ~addr.copied
    /\ \E r \in hc_array_copy(vec) :
          \E a \in (IF r.vec.data = "live"
                    THEN Addrs \ LiveAt(vec, addr.vec) ELSE {0}) :
            /\ dup' = r.vec
            /\ addr' = [addr EXCEPT !.dup = a, !.copied = TRUE, !.last = "copy"]
            /\ op' = "copy"
            /\ before' = [count |-> vec.count, capacity |-> vec.capacity]
            /\ ret' = r.ret
            /\ out' = r.out
            /\ UNCHANGED <<vec, pushed, str>>

CopyMutateSrc ==
    /\ op # "init"
    /\ \E o \in CopyOps(vec) :
          \E r \in o.outcomes :
            /\ r.vec.capacity <= MaxCopyCap
            /\ \E t \in HeapAfter(vec, addr.vec, dup, addr.dup, r) :
                  /\ vec' = t.x
                  /\ dup' = t.y
                  /\ addr' = [addr EXCEPT !.vec = t.xa, !.last = "src"]
            /\ op' = o.name
            /\ before' = [count |-> vec.count, capacity |-> vec.capacity]
            /\ ret' = r.ret
            /\ out' = r.out
            /\ UNCHANGED <<pushed, str>>

CopyMutateDup ==
    /\ addr.copied
    /\ \E o \in CopyOps(dup) :
          \E r \in o.outcomes :
            /\ r.vec.capacity <= MaxCopyCap
            /\ \E t \in HeapAfter(dup, addr.dup, vec, addr.vec, r) :
                  /\ dup' = t.x
                  /\ vec' = t.y
                  /\ addr' = [addr EXCEPT !.dup = t.xa, !.last = "dup"]
            /\ op' = o.name
            /\ before' = [count |-> dup.count, capacity |-> dup.capacity]
            /\ ret' = r.ret
            /\ out' = r.out
            /\ UNCHANGED <<pushed, str>>

CopyNext ==
    \/ CopyCreate
    \/ CopyCopy
    \/ CopyMutateSrc
    \/ CopyMutateDup

CopySpec == Init /\ [][CopyNext]_vars

---------------------------------------------------------------------------
(* A sixth caller: it builds one string, str, with the functions of        *)
(* hc_string.h, as the example program does: a string made from a C        *)
(* string, then cut, extended and rewritten in place.                      *)

\* the C strings the caller passes
Words == {<<>>, <<2>>, <<Space, 2, Space>>, <<2, 3, 2>>}
Suffixes == {<<3>>, <<2, Space>>}
\* old_word and new_word of a replace
Rewrites == {<<<<2>>, <<3, 3>>>>, <<<<3, 3>>, <<2>>>>, <<<<2>>, <<>>>>}

StrCall(name, outcomes) ==
    /\ str.data # "overrun"
    /\ \E r \in outcomes :
          /\ r.str.capacity <= MaxStrCap
          /\ str' = r.str
          /\ op' = name
          /\ before' = [count |-> str.length, capacity |-> str.capacity]
          /\ ret' = r.ret
          /\ UNCHANGED <<vec, out, pushed, dup, addr>>

StrCreateFromCstr ==
    /\ str.data = "NULL"
    /\ \E w \in Words :
          StrCall("create_from_cstr", hc_string_create_from_cstr(<<w>>))

StrConcat ==
    \E w \in Suffixes : StrCall("concat", hc_string_concat(str, <<w>>))

StrAppendChar ==
    \E c \in Chars : StrCall("append_char", hc_string_append_char(str, c))

StrSubstring ==
    \E start \in 0..2, length \in 0..2 :
        StrCall("substring", hc_string_substring(str, start, length))

StrTrim == StrCall("trim", hc_string_trim(str))

StrReplace ==
    \E w \in Rewrites :
        StrCall("replace", hc_string_replace(str, <<w[1]>>, <<w[2]>>))

\* the one call left once a call went outside the storage
StrDestroy ==
    /\ str' \in {r.str : r \in hc_string_destroy(str)}
    /\ op' = "destroy"
    /\ before' = [count |-> str.length, capacity |-> str.capacity]
    /\ ret' = Void
    /\ UNCHANGED <<vec, out, pushed, dup, addr>>

StringNext ==
    \/ StrCreateFromCstr
    \/ StrConcat
    \/ StrAppendChar
    \/ StrSubstring
    \/ StrTrim
    \/ StrReplace
    \/ StrDestroy

StringSpec == Init /\ [][StringNext]_vars

---------------------------------------------------------------------------
(* What the claims speak of. *)

\* the call succeeded
Ok(r) == r.ret = <<HC_ARRAY_SUCCESS>>

\* the call made last succeeded
Succeeded == ret = <<HC_ARRAY_SUCCESS>>

\* the element at index i, read through hc_array_at: <<x>>, or <<>> for an
\* element of no bytes
ElemAt(v, i) == Load(v, hc_array_at(v, i)[1], TRUE)

\* the live elements, in index order
Live(v) == [i \in 1..v.count |-> ElemAt(v, i - 1)]

\* the value x as an element of v: <<x>>, or <<>> when elem_size is 0
Stored(v, x) == IF v.elem_size = 0 THEN <<>> ELSE <<x>>

StoredAll(v, xs) == [i \in 1..Len(xs) |-> Stored(v, xs[i])]

\* the blocks of elements insert is called with
Blocks == SeqsUpTo(Values, MaxInsert)

\* the growth policy as the specification words it
PowersOfTwo == {2 ^ k : k \in 0..(SizeBits - 1)}

GrowthPolicy(required) ==
    IF required \in PowersOfTwo THEN 2 * required
    ELSE CHOOSE p \in PowersOfTwo :
            /\ p >= required
            /\ \A q \in PowersOfTwo : q >= required => p <= q

---------------------------------------------------------------------------
(* C1: count <= capacity holds after every call of every buffer operation. *)
CapacityInvariant == vec.count <= vec.capacity

\* a push_back on a full array has grown it
CapacityInvariantWitness ==
    /\ op = "push_back"
    /\ Succeeded
    /\ before.count = before.capacity
    /\ before.count > 0
    /\ vec.count = before.count + 1

(* C2: a successful insert(buf, index, elements, n) leaves count equal to  *)
(* the prior count plus n, whether or not the call grew the capacity.      *)
InsertAddsCount ==
    hc_array_is_valid(vec) =>
    \A index \in 0..vec.count, elements \in Blocks :
        \A r \in hc_array_insert(vec, index, elements, Len(elements)) :
            Ok(r) => r.vec.count = vec.count + Len(elements)

(* C3: a successful insert at index <= count makes the live sequence       *)
(* old[0..index) ++ elements ++ old[index..count).                         *)
InsertShiftsRight ==
    hc_array_is_valid(vec) =>
    \A index \in 0..vec.count, elements \in Blocks :
        \A r \in hc_array_insert(vec, index, elements, Len(elements)) :
            Ok(r) => Live(r.vec) = SubSeq(Live(vec), 1, index)
                                   \o StoredAll(r.vec, elements)
                                   \o SubSeq(Live(vec), index + 1, vec.count)

(* C4: a successful push_at(buf, index, element) with index < count makes  *)
(* the live sequence old[0..index) ++ [element] ++ old[index..count) and   *)
(* count one more: no stored element is lost or overwritten.               *)
PushAtDisplaces ==
    hc_array_is_valid(vec) =>
    \A index \in 0..(vec.count - 1), element \in ElemPtrs :
        \A r \in hc_array_push_at(vec, index, element) :
            Ok(r) => /\ r.vec.count = vec.count + 1
                     /\ Live(r.vec) = SubSeq(Live(vec), 1, index)
                                      \o <<Stored(r.vec, ElemOrZero(element))>>
                                      \o SubSeq(Live(vec), index + 1, vec.count)

(* C5: when insert, push_back, push_front or push_at needs a size (count + *)
(* n) above the capacity, the new capacity is the smallest power of two    *)
(* >= that size, or twice the size when it is itself a power of two; the   *)
(* four operations give the same capacity for the same required size.      *)
GrowthLaw ==
    /\ \A index \in 0..vec.count, elements \in Blocks :
          vec.count + Len(elements) > vec.capacity =>
            \A r \in hc_array_insert(vec, index, elements, Len(elements)) :
                Ok(r) => r.vec.capacity = GrowthPolicy(vec.count + Len(elements))
    /\ vec.count + 1 > vec.capacity =>
          \A element \in ElemPtrs :
            /\ \A r \in hc_array_push_back(vec, element) :
                  Ok(r) => r.vec.capacity = GrowthPolicy(vec.count + 1)
            /\ \A r \in hc_array_push_front(vec, element) :
                  Ok(r) => r.vec.capacity = GrowthPolicy(vec.count + 1)
            /\ \A index \in 0..(vec.count - 1) :
                  \A r \in hc_array_push_at(vec, index, element) :
                      Ok(r) => r.vec.capacity = GrowthPolicy(vec.count + 1)

\* one of the four has grown a full array of 2: it needed 3 and got 4
GrowthLawWitness ==
    /\ op \in {"insert", "push_back", "push_front", "push_at"}
    /\ Succeeded
    /\ before.count = before.capacity
    /\ before.count = 2
    /\ vec.capacity = 4

(* C6: after k successful push_back calls on a freshly created buffer,     *)
(* count = k and at(i) is the i-th pushed value, growth included; after    *)
(* create(4, sizeof(int)) and pushes of 10, 20, 30, 40: count = 4,         *)
(* capacity = 4; after a fifth push of 50: capacity = 8, count = 5,        *)
(* at(4) = 50.                                                             *)
PushBackSequence ==
    op # "init" =>
      /\ vec.count = Len(pushed.values)
      /\ \A i \in 0..(vec.count - 1) :
            /\ hc_array_at(vec, i) # <<>>
            /\ ElemAt(vec, i) = Stored(vec, pushed.values[i + 1])
      /\ (pushed.capacity = 4 /\ pushed.values = <<10, 20, 30, 40>>)
            => (vec.count = 4 /\ vec.capacity = 4)
      /\ (pushed.capacity = 4 /\ pushed.values = <<10, 20, 30, 40, 50>>)
            => (vec.capacity = 8 /\ vec.count = 5 /\ ElemAt(vec, 4) = <<50>>)

PushBackSequenceWitness ==
    /\ pushed.capacity = 4
    /\ pushed.values = <<10, 20, 30, 40, 50>>
    /\ op = "push_back"
    /\ before.capacity = 4

(* C7: a successful push_back(buf, element) keeps every former element at  *)
(* its index and makes the new last element the supplied element, or the   *)
(* all-zero element when the element pointer is NULL; count is one more.   *)
PushBackAppends ==
    \A element \in ElemPtrs :
        \A r \in hc_array_push_back(vec, element) :
            Ok(r) =>
              /\ r.vec.count = vec.count + 1
              /\ \A i \in 0..(vec.count - 1) : ElemAt(r.vec, i) = ElemAt(vec, i)
              /\ ElemAt(r.vec, vec.count) =
                    Stored(r.vec, IF element = <<>> THEN 0 ELSE element[1])

\* a push_back onto two elements; its new last element is zero and the
\* elements before it are not
PushBackAppendsWitness ==
    /\ op = "push_back"
    /\ Succeeded
    /\ before.count = 2
    /\ vec.count = 3
    /\ Live(vec) = <<<<1>>, <<1>>, <<0>>>>

(* C8: a successful push_front(buf, element) makes the live sequence       *)
(* [element] ++ old and count one more, with and without growth.           *)
PushFrontPrepends ==
    \A element \in ElemPtrs :
        \A r \in hc_array_push_front(vec, element) :
            Ok(r) =>
              /\ r.vec.count = vec.count + 1
              /\ Live(r.vec) = <<Stored(r.vec, ElemOrZero(element))>> \o Live(vec)

\* a push_front that grew a full array of two elements
PushFrontPrependsWitness ==
    /\ op = "push_front"
    /\ Succeeded
    /\ before.count = 2
    /\ before.capacity = 2
    /\ Live(vec) = <<<<1>>, <<0>>, <<1>>>>

(* C9, as stated: on a valid buffer, push_back(x) followed at once by      *)
(* pop_back(out) returns Success, writes x into out and restores the count *)
(* and the live sequence that held before the push_back.                   *)
PushBackPopBackAlways ==
    hc_array_is_valid(vec) =>
      \A x \in Values :
        \A r \in hc_array_push_back(vec, <<x>>) :
          \A q \in hc_array_pop_back(r.vec, TRUE) :
            /\ Ok(q)
            /\ q.out = <<x>>
            /\ q.vec.count = vec.count
            /\ Live(q.vec) = Live(vec)

(* C9, amended: on a valid buffer, a push_back(x) that returns Success,    *)
(* followed at once by pop_back(out), makes pop_back return Success, write *)
(* x into out and restore the count and the live sequence that held before *)
(* the push_back.                                                          *)
PushBackPopBackRoundTrip ==
    hc_array_is_valid(vec) =>
      \A x \in Values :
        \A r \in hc_array_push_back(vec, <<x>>) :
          Ok(r) =>
            \A q \in hc_array_pop_back(r.vec, TRUE) :
              /\ Ok(q)
              /\ q.out = <<x>>
              /\ q.vec.count = vec.count
              /\ Live(q.vec) = Live(vec)

\* the push grew a full array and the pop gave the pushed 1 back
PushBackPopBackRoundTripWitness ==
    /\ op = "push_back;pop_back"
    /\ before.count = before.capacity
    /\ vec.capacity > before.capacity
    /\ Succeeded
    /\ out = <<1>>
    /\ hc_array_is_valid(vec)
    /\ vec.count = before.count
    /\ vec.count > 0

(* C10: pop_front on a buffer with count >= 1 returns the former element 0 *)
(* in out, leaves old[1..count) in the same order from index 0 and makes   *)
(* count one less.                                                         *)
PopFrontShiftsLeft ==
    vec.count >= 1 =>
      \A r \in hc_array_pop_front(vec, TRUE) :
        /\ Ok(r)
        /\ r.out = ElemAt(vec, 0)
        /\ r.vec.count = vec.count - 1
        /\ Live(r.vec) = SubSeq(Live(vec), 2, vec.count)

\* pop_front on three elements: 1 removed, <<0, 1>> remains
PopFrontShiftsLeftWitness ==
    /\ op = "pop_front"
    /\ Succeeded
    /\ out = <<1>>
    /\ before.count = 3
    /\ Live(vec) = <<<<0>>, <<1>>>>

(* C11: pop_at(buf, index, out) with index < count returns Success, writes *)
(* the former element at index into out, leaves the live sequence          *)
(* old[0..index) ++ old[index+1..count) and makes count one less.          *)
PopAtClosesGap ==
    \A index \in 0..(vec.count - 1) :
        \A r \in hc_array_pop_at(vec, index, TRUE) :
            /\ Ok(r)
            /\ r.out = ElemAt(vec, index)
            /\ r.vec.count = vec.count - 1
            /\ Live(r.vec) = SubSeq(Live(vec), 1, index)
                             \o SubSeq(Live(vec), index + 2, vec.count)

\* pop_at took the only 1 out of three elements and left <<0, 0>>
PopAtClosesGapWitness ==
    /\ op = "pop_at"
    /\ Succeeded
    /\ out = <<1>>
    /\ before.count = 3
    /\ Live(vec) = <<<<0>>, <<0>>>>

(* C12: in every reachable state, at(buf, index) returns a reference to    *)
(* element index (storage + index * elem_size) when index < count, and     *)
(* NULL for every index >= count, index == count and count == 0 included.  *)
AtBounds ==
    \A index \in 0..(vec.count + 2) :
        /\ index < vec.count
              => hc_array_at(vec, index) = <<index * vec.elem_size>>
        /\ index >= vec.count => hc_array_at(vec, index) = <<>>

\* at has returned NULL on an array that holds elements
AtBoundsWitness ==
    /\ op = "at"
    /\ ret = <<>>
    /\ vec.count > 0
    /\ hc_array_is_valid(vec)

(* C13: a positional operation whose precondition fails returns its        *)
(* failure status and leaves the storage, count, capacity, elem_size and   *)
(* the elements unchanged: insert with index > count, push_at and pop_at   *)
(* with index >= count return OutOfBounds; pop_back and pop_front with     *)
(* count == 0 return Empty.                                                *)
RejectedWithoutEffect ==
    /\ \A index \in (vec.count + 1)..(vec.count + 2), elements \in Blocks :
          hc_array_insert(vec, index, elements, Len(elements))
            = {Status(vec, HC_ARRAY_ERROR_OUT_OF_BOUNDS)}
    /\ \A index \in vec.count..(vec.count + 2) :
          /\ \A element \in ElemPtrs :
                hc_array_push_at(vec, index, element)
                  = {Status(vec, HC_ARRAY_ERROR_OUT_OF_BOUNDS)}
          /\ \A has_out \in BOOLEAN :
                hc_array_pop_at(vec, index, has_out)
                  = {Status(vec, HC_ARRAY_ERROR_OUT_OF_BOUNDS)}
    /\ vec.count = 0 =>
          \A has_out \in BOOLEAN :
            /\ hc_array_pop_back(vec, has_out) = {Status(vec, HC_ARRAY_EMPTY)}
            /\ hc_array_pop_front(vec, has_out) = {Status(vec, HC_ARRAY_EMPTY)}

\* push_at at index == count was rejected on an array that holds an element
\* and has room for another
RejectedWithoutEffectWitness ==
    /\ op = "push_at"
    /\ ret = <<HC_ARRAY_ERROR_OUT_OF_BOUNDS>>
    /\ hc_array_is_valid(vec)
    /\ vec.count > 0
    /\ vec.count < vec.capacity
    /\ before = [count |-> vec.count, capacity |-> vec.capacity]

(* C14: when the reallocation fails, reserve, insert, push_back,           *)
(* push_front, push_at and shrink_to_fit return OutOfMemory and leave the  *)
(* buffer exactly as before the call: the same storage, count, capacity,   *)
(* elem_size and elements.                                                 *)
OutOfMemoryKeepsBuffer ==
    LET Kept(outcomes) ==
            \A r \in outcomes :
                r.ret = <<HC_ARRAY_ERROR_OUT_OF_MEMORY>> => r.vec = vec
    IN  /\ \A n \in 0..(MaxCap + 1) : Kept(hc_array_reserve(vec, n))
        /\ Kept(hc_array_shrink_to_fit(vec))
        /\ \A index \in 0..vec.count, elements \in Blocks :
              Kept(hc_array_insert(vec, index, elements, Len(elements)))
        /\ \A element \in ElemPtrs :
              /\ Kept(hc_array_push_back(vec, element))
              /\ Kept(hc_array_push_front(vec, element))
              /\ \A index \in 0..(vec.count - 1) :
                    Kept(hc_array_push_at(vec, index, element))

(* C15: a reserve(buf, new_capacity) that returns Success leaves capacity  *)
(* >= new_capacity, never decreases capacity, leaves capacity unchanged    *)
(* when it was already >= new_capacity, and never changes count, elem_size *)
(* or the live elements.                                                   *)
ReserveOnlyGrows ==
    \A new_capacity \in 0..(MaxCap + 1) :
        \A r \in hc_array_reserve(vec, new_capacity) :
            Ok(r) =>
              /\ r.vec.capacity >= new_capacity
              /\ r.vec.capacity >= vec.capacity
              /\ vec.capacity >= new_capacity => r.vec.capacity = vec.capacity
              /\ r.vec.count = vec.count
              /\ r.vec.elem_size = vec.elem_size
              /\ Live(r.vec) = Live(vec)

\* reserve has grown a valid array that holds two different elements
ReserveOnlyGrowsWitness ==
    /\ op = "reserve"
    /\ Succeeded
    /\ hc_array_is_valid(vec)
    /\ vec.capacity > before.capacity
    /\ before.capacity > 0
    /\ vec.count = before.count
    /\ Live(vec) = <<<<1>>, <<0>>>>

(* C16: the status shrink_to_fit returns when count == capacity ("already  *)
(* fit") is distinct from the status it returns when count == 0 ("empty"), *)
(* and both are distinct from Success.                                     *)
AlreadyFitDistinctFromEmpty ==
    (hc_array_is_valid(vec) /\ vec.count = vec.capacity) =>
        \A fit \in hc_array_shrink_to_fit(vec),
           empty \in hc_array_shrink_to_fit([vec EXCEPT !.count = 0]) :
            /\ fit.ret # empty.ret
            /\ fit.ret # <<HC_ARRAY_SUCCESS>>
            /\ empty.ret # <<HC_ARRAY_SUCCESS>>

(* C17: shrink_to_fit on a buffer with 0 < count < capacity, when the      *)
(* reallocation succeeds, sets capacity to exactly count and keeps count   *)
(* and the live elements; a second shrink_to_fit right after it returns    *)
(* the "already fit" status and changes nothing.  count = 3, capacity = 8  *)
(* gives capacity = 3, then already fit.                                   *)
ShrinkToFitExact ==
    (0 < vec.count /\ vec.count < vec.capacity) =>
        \A r \in hc_array_shrink_to_fit(vec) :
            Ok(r) =>
              /\ r.vec.capacity = vec.count
              /\ r.vec.count = vec.count
              /\ Live(r.vec) = Live(vec)
              /\ (vec.count = 3 /\ vec.capacity = 8) => r.vec.capacity = 3
              /\ \A q \in hc_array_shrink_to_fit(r.vec) :
                    /\ q.ret = <<AlreadyFit>>
                    /\ q.vec = r.vec

\* the two calls on count = 3, capacity = 8: capacity 3, then already fit
ShrinkToFitExactWitness ==
    /\ op = "shrink_to_fit;shrink_to_fit"
    /\ before = [count |-> 3, capacity |-> 8]
    /\ vec.count = 3
    /\ vec.capacity = 3
    /\ ret = <<AlreadyFit>>
    /\ Len(Live(vec)) = 3

(* C18: create(capacity, elem_size) returns the all-zero invalid buffer    *)
(* when capacity == 0, when elem_size == 0 or when the allocation fails;   *)
(* in every other case it returns a valid buffer with count == 0 and the   *)
(* capacity and elem_size asked for.                                       *)
(* The arguments are those of the model's callers and the capacity and     *)
(* elem_size of the array that exists.                                     *)
CreateFailsSoft ==
    \A capacity \in 0..(MaxCap + 1) \cup {vec.capacity},
       elem_size \in ElemSizes \cup {1, vec.elem_size} :
        LET Created(r) ==
                /\ hc_array_is_valid(r.vec)
                /\ r.vec.count = 0
                /\ r.vec.capacity = capacity
                /\ r.vec.elem_size = elem_size
        IN  /\ \A r \in hc_array_create(capacity, elem_size) :
                  r.vec = ZeroVec \/ Created(r)
            /\ (capacity = 0 \/ elem_size = 0)
                  => hc_array_create(capacity, elem_size) = {Done(ZeroVec)}
            /\ (capacity # 0 /\ elem_size # 0)
                  => /\ \E r \in hc_array_create(capacity, elem_size) :
                          Created(r)
                     /\ \A p \in HC_MALLOC(capacity * elem_size, elem_size) :
                          p.ptr = "NULL"
                            => Done(ZeroVec)
                                 \in hc_array_create(capacity, elem_size)

\* create has returned a valid empty array of the largest capacity
CreateFailsSoftWitness ==
    /\ op = "create"
    /\ hc_array_is_valid(vec)
    /\ vec.count = 0
    /\ vec.capacity = MaxCap
    /\ vec.elem_size = 2

(* C19: after destroy(buf) in any reachable state the buffer has no        *)
(* storage and count = capacity = elem_size = 0; destroy releases the      *)
(* storage once, a block that was not released before, and a second        *)
(* destroy releases nothing and leaves the same zeroed state.              *)
DestroyIdempotent ==
    \A r \in hc_array_destroy(vec) :
        /\ r.vec = ZeroVec
        /\ hc_array_destroy_frees(vec) \in {<<>>, <<"live">>}
        /\ hc_array_destroy_frees(r.vec) = <<>>
        /\ hc_array_destroy(r.vec) = {Done(ZeroVec)}

(* C20, as stated: copy(src) of a buffer with count > 0 returns, when the  *)
(* allocation succeeds, a buffer with the same elem_size, count ==         *)
(* src.count, capacity == src.count and the same live elements in the same *)
(* order; copy of a source with count == 0 returns the all-zero buffer.    *)
CopyDuplicatesAnyCount ==
    LET Duplicate(r) ==
            /\ r.vec.elem_size = vec.elem_size
            /\ r.vec.count = vec.count
            /\ r.vec.capacity = vec.count
            /\ Live(r.vec) = Live(vec)
    IN  /\ vec.count > 0
              => /\ \E r \in hc_array_copy(vec) : Duplicate(r)
                 /\ \A r \in hc_array_copy(vec) :
                      r.vec = ZeroVec \/ Duplicate(r)
        /\ vec.count = 0 => hc_array_copy(vec) = {Done(ZeroVec)}

(* C20, amended: copy(src) of a buffer with count > 0 and elem_size > 0    *)
(* returns, when the allocation succeeds, a buffer with the same           *)
(* elem_size, count == src.count, capacity == src.count and the same live  *)
(* elements in the same order, and the all-zero buffer when the allocation *)
(* fails; copy of a source with count == 0 or elem_size == 0 returns the   *)
(* all-zero buffer.                                                        *)
CopyDuplicatesBytes ==
    LET Duplicate(r) ==
            /\ r.vec.data = "live"
            /\ r.vec.elem_size = vec.elem_size
            /\ r.vec.count = vec.count
            /\ r.vec.capacity = vec.count
            /\ Live(r.vec) = Live(vec)
    IN  /\ (vec.count > 0 /\ vec.elem_size > 0)
              => /\ \E r \in hc_array_copy(vec) : Duplicate(r)
                 /\ \A r \in hc_array_copy(vec) :
                      r.vec = ZeroVec \/ Duplicate(r)
        /\ (vec.count = 0 \/ vec.elem_size = 0)
              => hc_array_copy(vec) = {Done(ZeroVec)}

\* the copy of an array of capacity 4 that held <<1, 0>>
CopyDuplicatesBytesWitness ==
    /\ op = "copy"
    /\ hc_array_is_valid(vec)
    /\ before = [count |-> 2, capacity |-> 4]
    /\ vec.count = 2
    /\ vec.capacity = 2
    /\ Live(vec) = <<<<1>>, <<0>>>>

(* C22: fill(buf, element) on a valid buffer makes every slot from 0 to    *)
(* capacity - 1 equal to element and sets count == capacity, whatever the  *)
(* prior count, without changing capacity or elem_size.                    *)
FillCoversCapacity ==
    hc_array_is_valid(vec) =>
      \A x \in Values :
        \A r \in hc_array_fill(vec, x) :
          /\ r.vec.count = vec.capacity
          /\ r.vec.capacity = vec.capacity
          /\ r.vec.elem_size = vec.elem_size
          /\ Live(r.vec) = [i \in 1..vec.capacity |-> <<x>>]

\* fill with 1 of an array of capacity 3 that held one element
FillCoversCapacityWitness ==
    /\ op = "fill"
    /\ hc_array_is_valid(vec)
    /\ before = [count |-> 1, capacity |-> 3]
    /\ vec.count = 3
    /\ Live(vec) = <<<<1>>, <<1>>, <<1>>>>

(* C23: in every reachable state, the zeroed and the destroyed buffer and  *)
(* every allocator outcome included, the storage pointer is NULL if and    *)
(* only if capacity == 0.                                                  *)
StorageNullIffNoCapacity == (vec.data = "NULL") <=> (vec.capacity = 0)

\* reserve on the zeroed buffer got storage and recorded a capacity
StorageNullIffNoCapacityWitness ==
    /\ op = "reserve"
    /\ before.capacity = 0
    /\ vec.data # "NULL"
    /\ vec.capacity > 0

(* C24: is_valid changes from false to true only through create or through *)
(* reserve on a zero-state buffer, and from true to false only through     *)
(* destroy; shrink_to_fit, clear, fill, insert, push_back, push_front,     *)
(* push_at, pop_back, pop_front and pop_at leave is_valid as it was.       *)
ValidityChangesOnlyByLifecycle ==
    LET Same(outcomes) ==
            \A r \in outcomes :
                hc_array_is_valid(r.vec) = hc_array_is_valid(vec)
    IN  /\ Same(hc_array_shrink_to_fit(vec))
        /\ Same(hc_array_clear(vec))
        /\ \A x \in Values : Same(hc_array_fill(vec, x))
        /\ \A index \in Indexes, elements \in Blocks :
              Same(hc_array_insert(vec, index, elements, Len(elements)))
        /\ \A element \in ElemPtrs :
              /\ Same(hc_array_push_back(vec, element))
              /\ Same(hc_array_push_front(vec, element))
              /\ \A index \in Indexes :
                    Same(hc_array_push_at(vec, index, element))
        /\ \A has_out \in BOOLEAN :
              /\ Same(hc_array_pop_back(vec, has_out))
              /\ Same(hc_array_pop_front(vec, has_out))
              /\ \A index \in Indexes :
                    Same(hc_array_pop_at(vec, index, has_out))
        /\ \A n \in 0..(MaxCap + 1) :
              \A r \in hc_array_reserve(vec, n) :
                hc_array_is_valid(r.vec) # hc_array_is_valid(vec)
                  => (vec = ZeroVec /\ hc_array_is_valid(r.vec))
        /\ \A r \in hc_array_destroy(vec) : ~hc_array_is_valid(r.vec)

\* clear has emptied a valid array that held elements, and it is valid
ValidityChangesOnlyByLifecycleWitness ==
    /\ op = "clear"
    /\ before.count > 0
    /\ vec.count = 0
    /\ hc_array_is_valid(vec)

(* C25: on the zeroed buffer every positional mutation (insert, push_back, *)
(* push_front, push_at, pop_back, pop_front, pop_at) is rejected with a    *)
(* status other than Success and leaves the buffer zeroed, and is_empty    *)
(* and at give the empty and the not-found result.                         *)
ZeroedBufferRejects ==
    LET Rejected(outcomes) ==
            \A r \in outcomes :
                /\ r.ret # <<HC_ARRAY_SUCCESS>>
                /\ r.vec = ZeroVec
    IN  vec = ZeroVec =>
          /\ \A index \in Indexes, elements \in Blocks :
                Rejected(hc_array_insert(vec, index, elements, Len(elements)))
          /\ \A element \in ElemPtrs :
                /\ Rejected(hc_array_push_back(vec, element))
                /\ Rejected(hc_array_push_front(vec, element))
                /\ \A index \in Indexes :
                      Rejected(hc_array_push_at(vec, index, element))
          /\ \A has_out \in BOOLEAN :
                /\ Rejected(hc_array_pop_back(vec, has_out))
                /\ Rejected(hc_array_pop_front(vec, has_out))
                /\ \A index \in Indexes :
                      Rejected(hc_array_pop_at(vec, index, has_out))
          /\ hc_array_is_empty(vec)
          /\ \A index \in Indexes : hc_array_at(vec, index) = <<>>

(* C26: in every reachable state of a valid buffer each live slot i <      *)
(* count holds a value a caller supplied (or the zero element of a NULL    *)
(* push): no never-written slot is live.                                   *)
LiveSlotsWritten ==
    hc_array_is_valid(vec) =>
      \A i \in 0..(vec.count - 1) : ElemAt(vec, i) # <<Uninit>>

(* C28: every byte range that insert, push_back, push_front, push_at,      *)
(* pop_front, pop_at and fill read or write in the storage lies within     *)
(* [0, capacity * elem_size) of the storage the call works on (the grown   *)
(* one when the call grows it), in every reachable state.                  *)
AccessesWithinStorage ==
    LET Within(outcomes, ranges) ==
            \A r \in outcomes :
                (r.ret = Void \/ Ok(r)) =>
                    \A g \in ranges :
                        g.off + g.len <= r.vec.capacity * r.vec.elem_size
    IN  /\ \A x \in Values :
              Within(hc_array_fill(vec, x), hc_array_fill_ranges(vec))
        /\ \A index \in 0..vec.count, elements \in Blocks :
              Within(hc_array_insert(vec, index, elements, Len(elements)),
                     hc_array_insert_ranges(vec, index, Len(elements)))
        /\ \A element \in ElemPtrs :
              /\ Within(hc_array_push_back(vec, element),
                        hc_array_push_back_ranges(vec))
              /\ Within(hc_array_push_front(vec, element),
                        hc_array_push_front_ranges(vec))
              /\ \A index \in 0..(vec.count - 1) :
                    Within(hc_array_push_at(vec, index, element),
                           hc_array_push_at_ranges(vec, index))
        /\ \A has_out \in BOOLEAN :
              /\ Within(hc_array_pop_front(vec, has_out),
                        hc_array_pop_front_ranges(vec, has_out))
              /\ \A index \in 0..(vec.count - 1) :
                    Within(hc_array_pop_at(vec, index, has_out),
                           hc_array_pop_at_ranges(vec, index, has_out))

\* an insert of one element in the middle of a full array of two: the
\* array has grown to 4 slots and the last element was moved to slot 2
AccessesWithinStorageWitness ==
    /\ op = "insert"
    /\ Succeeded
    /\ hc_array_is_valid(vec)
    /\ before = [count |-> 2, capacity |-> 2]
    /\ vec.capacity = 4
    /\ vec.mem = <<1, 0, 1, Uninit>>

(* C30: with size_t arithmetic modulo 2^w, create and reserve/growth never *)
(* produce a buffer whose recorded capacity exceeds what was allocated:    *)
(* the byte size passed to the allocator is the product capacity *         *)
(* elem_size without wrap-around, and the capacity the power-of-two policy *)
(* computes is never smaller than the required size count + 1.             *)
NoWrapAround ==
    /\ (vec.data = "live" /\ vec.elem_size > 0)
          => /\ Wrap(vec.capacity * vec.elem_size) = vec.capacity * vec.elem_size
             /\ Len(vec.mem) >= vec.capacity
    /\ (vec.data = "live" /\ vec.elem_size > 0 /\ vec.count >= vec.capacity)
          => push_back_new_size(Wrap(vec.count + 1)) >= vec.count + 1

(* C21: after c = copy(src), no call of a mutating operation on c changes  *)
(* the storage, count, capacity or elements of src, none on src changes    *)
(* those of c, and the two never share storage.                            *)
CopyIndependence ==
    [][/\ addr'.last = "dup" => vec' = vec
       /\ (addr.copied /\ addr'.last = "src") => dup' = dup
       /\ ~(/\ vec'.data = "live"
            /\ dup'.data = "live"
            /\ addr'.vec = addr'.dup)]_vars

(* C27: whenever hc_string_append_char or hc_string_concat enlarges the    *)
(* storage of the string, the new capacity is the smallest power of two    *)
(* >= the size it needs (the characters and the NUL), or twice that size   *)
(* when it is itself a power of two.                                       *)
StringGrowthLaw ==
    /\ \A c \in Chars :
          \A r \in hc_string_append_char(str, c) :
              r.str.capacity # str.capacity =>
                  r.str.capacity = GrowthPolicy(str.length + 2)
    /\ \A w \in Suffixes :
          \A r \in hc_string_concat(str, <<w>>) :
              r.str.capacity # str.capacity =>
                  r.str.capacity = GrowthPolicy(str.length + Len(w) + 1)

(* C29: after a successful create_from_cstr, concat, append_char,          *)
(* substring, trim or replace the length field is the number of chars      *)
(* before the NUL and length + 1 <= capacity; after a replace length is    *)
(* the length of the replaced text.                                        *)
LengthIsTextLength ==
    (/\ op \in {"create_from_cstr", "concat", "append_char", "substring",
                "trim", "replace"}
     /\ str.data = "live"
     /\ ret \in {Void, <<HC_STRING_SUCCESS>>})
    => /\ str.length = strlen(str.mem)
       /\ str.length + 1 <= str.capacity

=============================================================================
